---- MODULE Spec2Model ----
(***************************************************************************)
(* postcss-plugin-webp: the stylesheet transform of src/plugin.ts.         *)
(*                                                                         *)
(* Strings are sequences of one-character strings, so that the string      *)
(* operations of the plugin (includes, replace, the two regular            *)
(* expressions) are computed character by character.                       *)
(***************************************************************************)
EXTENDS Integers, Sequences, FiniteSets, TLC

VARIABLES
    options,      \* the resolved IPluginOptions of the plugin object
    tree,         \* the PostCSS nodes that hold children: id -> node
    noWebpRules,  \* Map<Rule, Rule>, as the sequence of its entries
    webpRules,    \* Map<Rule, Rule>, as the sequence of its entries
    cursor,       \* the host's position in its walk over the rules
    pc,           \* "walk" | "done" | "thrown", or "call" | "returned" for a lone call
    nextId,       \* the identity the next constructed Rule gets
    input,        \* the tree as the host parsed it, or the class names of the page
                  \* the polyfill started on (history)
    valIn,        \* the pieces the enumerated declaration value is made of (history)
    selIn,        \* arguments of a transformSelectors call
    selOut,       \* its result
    dirty,        \* the rules the host marked dirty: it visits them again
    other,        \* the other invocation of this plugin object, when there is one
    classList,    \* document.documentElement.classList of the polyfill's page
    image         \* the Image of the polyfill

vars == <<options, tree, noWebpRules, webpRules, cursor, pc, nextId, input, valIn,
          selIn, selOut, dirty, other, classList, image>>

\* the state of the page the polyfill runs in
polyfillVars == <<classList, image>>

(***************************************************************************)
(* Bounds of the model.                                                    *)
(***************************************************************************)
MaxRules == 2       \* rules of an input stylesheet
MaxSelChunks == 3   \* pieces an enumerated selector is built from
MaxValChunks == 2   \* pieces an enumerated declaration value is built from

(***************************************************************************)
(* String literals.                                                        *)
(***************************************************************************)
Html == <<"h", "t", "m", "l">>
RootPseudo == <<":", "r", "o", "o", "t">>
GlobalOpen == <<":", "g", "l", "o", "b", "a", "l", "(", ".">>
GlobalClose == <<")">>
Dot == <<".">>
Space == <<" ">>
Comma == <<",">>
DefaultNoWebpClass == <<"n", "o", "-", "w", "e", "b", "p">>
DefaultWebpClass == <<"w", "e", "b", "p">>
DefaultNoJsClass == <<"n", "o", "-", "j", "s">>
WebpExt == <<".", "w", "e", "b", "p">>
WebpMime == <<"i", "m", "a", "g", "e", "/", "w", "e", "b", "p">>

(***************************************************************************)
(* String.prototype.includes / indexOf / replace(string, string).          *)
(***************************************************************************)
MatchAt(s, i, pat) ==
    /\ i >= 1
    /\ i + Len(pat) - 1 <= Len(s)
    /\ \A k \in 1..Len(pat) : s[i + k - 1] = pat[k]

\* the position of the first occurrence of pat in s, 0 when there is none
IndexOf(s, pat) ==
    LET RECURSIVE Go(_)
        Go(i) == IF i + Len(pat) - 1 > Len(s) THEN 0
                 ELSE IF MatchAt(s, i, pat) THEN i
                 ELSE Go(i + 1)
    IN Go(1)

Includes(s, pat) == IndexOf(s, pat) # 0

\* replace with a string pattern rewrites the first occurrence only
Replace(s, pat, rep) ==
    LET i == IndexOf(s, pat)
    IN IF i = 0 THEN s
       ELSE SubSeq(s, 1, i - 1) \o rep \o SubSeq(s, i + Len(pat), Len(s))

(***************************************************************************)
(* transformSelectors (plugin.ts 91-105).                                  *)
(***************************************************************************)
MarkerOf(className) ==
    IF options.modules THEN GlobalOpen \o className \o GlobalClose
    ELSE Dot \o className

\* a transformSelectors callback that leaves :root in place
TransformOneKeepRoot(selector, marker) ==
    LET cleaned == Replace(selector, marker, <<>>)
    IN IF Includes(cleaned, Html) THEN Replace(cleaned, Html, Html \o marker)
       ELSE IF Len(cleaned) > 0 THEN Html \o marker \o Space \o cleaned
       ELSE Html \o marker

TransformOne(selector, marker) ==
    LET cleaned == Replace(Replace(selector, marker, <<>>), RootPseudo, <<>>)
    IN IF Includes(cleaned, Html) THEN Replace(cleaned, Html, Html \o marker)
       ELSE IF Len(cleaned) > 0 THEN Html \o marker \o Space \o cleaned
       ELSE Html \o marker

transformSelectors(selectors, className) ==
    [i \in 1..Len(selectors) |-> TransformOne(selectors[i], MarkerOf(className))]

(***************************************************************************)
(* Regular expressions of the default classifier (plugin.ts 70-76).  Both  *)
(* carry the i flag; rename's carry the g flag as well.                    *)
(***************************************************************************)
Lower(c) ==
    CASE c = "P" -> "p" [] c = "N" -> "n" [] c = "G" -> "g" [] c = "J" -> "j"
      [] OTHER -> c

\* /\.(jpe?g|png|gif|avif)/: the literal, then the alternatives in the order
\* the matcher tries them (jpe?g takes the e when it can)
ExtensionRegex ==
    [literal |-> <<".">>,
     alternatives |-> << <<"j", "p", "e", "g">>, <<"j", "p", "g">>, <<"p", "n", "g">>,
                         <<"g", "i", "f">>, <<"a", "v", "i", "f">> >>]

\* /image\/(jpeg|png|gif|avif)/
MimeRegex ==
    [literal |-> <<"i", "m", "a", "g", "e", "/">>,
     alternatives |-> << <<"j", "p", "e", "g">>, <<"p", "n", "g">>, <<"g", "i", "f">>,
                         <<"a", "v", "i", "f">> >>]

\* the i flag: letters are compared without case
MatchWordAt(s, i, w) ==
    /\ i + Len(w) - 1 <= Len(s)
    /\ \A k \in 1..Len(w) : Lower(s[i + k - 1]) = w[k]

\* length of the match of regex at position i, 0 when there is none
MatchLen(s, i, regex) ==
    IF ~MatchWordAt(s, i, regex.literal) THEN 0
    ELSE LET j == i + Len(regex.literal)
             RECURSIVE Try(_)
             Try(k) == IF k > Len(regex.alternatives) THEN 0
                       ELSE IF MatchWordAt(s, j, regex.alternatives[k])
                       THEN Len(regex.literal) + Len(regex.alternatives[k])
                       ELSE Try(k + 1)
         IN Try(1)

\* RegExp.prototype.test
RegexTest(s, regex) ==
    LET RECURSIVE Go(_)
        Go(i) == IF i > Len(s) THEN FALSE
                 ELSE IF MatchLen(s, i, regex) > 0 THEN TRUE
                 ELSE Go(i + 1)
    IN Go(1)

\* String.prototype.replace with a g-flagged regex
RegexReplaceAll(s, regex, rep) ==
    LET RECURSIVE Go(_)
        Go(i) == IF i > Len(s) THEN <<>>
                 ELSE LET n == MatchLen(s, i, regex)
                      IN IF n > 0 THEN rep \o Go(i + n)
                         ELSE <<s[i]>> \o Go(i + 1)
    IN Go(1)

CustomExt == <<".", "c", "u", "s", "t", "o", "m", ".", "w", "e", "b", "p">>

\* a predicate that keeps the default beside the override
predicateMerged(declaration) ==
    \/ RegexTest(declaration.value, ExtensionRegex)
    \/ options.predicate = "custom" /\ declaration.prop = "background-image"

\* options.predicate: the default, or the override of the test suite
predicate(declaration) ==
    IF options.predicate = "custom"
    THEN declaration.prop = "background-image"
    ELSE RegexTest(declaration.value, ExtensionRegex)

\* a rename whose regular expressions lack the g flag
renameFirstOnly(declaration) ==
    LET ReplaceFirst(s, regex, rep) ==
            LET RECURSIVE Go(_)
                Go(i) == IF i > Len(s) THEN <<>>
                         ELSE LET n == MatchLen(s, i, regex)
                              IN IF n > 0 THEN rep \o SubSeq(s, i + n, Len(s))
                                 ELSE <<s[i]>> \o Go(i + 1)
            IN Go(1)
    IN IF options.rename = "custom"
       THEN ReplaceFirst(declaration.value, ExtensionRegex, CustomExt)
       ELSE ReplaceFirst(ReplaceFirst(declaration.value, ExtensionRegex, WebpExt),
                         MimeRegex, WebpMime)

\* options.rename: the default, or the override of the test suite
rename(declaration) ==
    IF options.rename = "custom"
    THEN RegexReplaceAll(declaration.value, ExtensionRegex, CustomExt)
    ELSE RegexReplaceAll(RegexReplaceAll(declaration.value, ExtensionRegex, WebpExt),
                         MimeRegex, WebpMime)

\* an override that throws: a user's predicate or rename that rejects a
\* declaration it was not written for (here border-image) with an exception
PredicateThrows(declaration) ==
    options.predicate = "throws" /\ declaration.prop = "border-image"

RenameThrows(declaration) ==
    options.rename = "throws" /\ declaration.prop = "border-image"

(***************************************************************************)
(* PostCSS nodes.  tree maps the identity of every node that holds         *)
(* children (the root, an at-rule, a rule) to its selector, its children   *)
(* and its parent; a declaration is held by value in its parent's nodes.   *)
(***************************************************************************)
RootId == 0
AtRuleId == MaxRules + 1
FirstNewId == MaxRules + 2
NoParent == RootId - 1

Decl(prop, value) == [type |-> "decl", id |-> NoParent, prop |-> prop, value |-> value]
Child(type, id) == [type |-> type, id |-> id, prop |-> "", value |-> <<>>]

\* postcss list.comma: split at top-level commas, trim every piece
Trim(s) ==
    LET RECURSIVE First(_)
        First(i) == IF i > Len(s) \/ s[i] # " " THEN i ELSE First(i + 1)
        RECURSIVE Last(_)
        Last(i) == IF i < 1 \/ s[i] # " " THEN i ELSE Last(i - 1)
    IN SubSeq(s, First(1), Last(Len(s)))

ListComma(string) ==
    LET RECURSIVE Go(_, _, _, _)
        Go(i, array, current, func) ==
            IF i > Len(string) THEN Append(array, Trim(current))
            ELSE LET letter == string[i]
                     func2 == IF letter = "(" THEN func + 1
                              ELSE IF letter = ")" /\ func > 0 THEN func - 1
                              ELSE func
                     split == letter = "," /\ func = 0
                 IN IF split
                    THEN Go(i + 1,
                            IF current # <<>> THEN Append(array, Trim(current)) ELSE array,
                            <<>>, func2)
                    ELSE Go(i + 1, array, Append(current, letter), func2)
    IN Go(1, <<>>, <<>>, 0)

\* Array.prototype.join
Join(values, sep) ==
    LET RECURSIVE Go(_)
        Go(i) == IF i > Len(values) THEN <<>>
                 ELSE IF i = 1 THEN values[1] \o Go(2)
                 ELSE sep \o values[i] \o Go(i + 1)
    IN Go(1)

\* the text /,\s*/ matches first in selector, or ", " when it has no comma
SelectorSeparator(selector) ==
    LET i == IndexOf(selector, Comma)
        RECURSIVE Blanks(_)
        Blanks(j) == IF j <= Len(selector) /\ selector[j] = " "
                     THEN Space \o Blanks(j + 1) ELSE <<>>
    IN IF i = 0 THEN Comma \o Space ELSE Comma \o Blanks(i + 1)

\* the getter and the setter of Rule.selectors
Selectors(node) == ListComma(node.selector)
SetSelectors(node, values) ==
    [node EXCEPT !.selector = Join(values, SelectorSeparator(node.selector))]

\* new Rule({ selectors, nodes })
NewRule(selectors, nodes) ==
    SetSelectors([type |-> "rule", selector |-> <<>>, nodes |-> nodes, parent |-> NoParent],
                 selectors)

\* the declarations below a container in document order (Container.walkDecls)
RECURSIVE walkDecls(_, _)
walkDecls(t, c) ==
    LET RECURSIVE Go(_)
        Go(i) == IF i > Len(t[c].nodes) THEN <<>>
                 ELSE LET n == t[c].nodes[i]
                      IN (IF n.type = "decl" THEN <<n>> ELSE walkDecls(t, n.id)) \o Go(i + 1)
    IN Go(1)

\* the rules below a container in document order: the order of the host's walk
RECURSIVE RulesInOrder(_, _)
RulesInOrder(t, c) ==
    LET RECURSIVE Go(_)
        Go(i) == IF i > Len(t[c].nodes) THEN <<>>
                 ELSE LET n == t[c].nodes[i]
                      IN (IF n.type = "decl" THEN <<>>
                          ELSE IF n.type = "rule" THEN <<n.id>> \o RulesInOrder(t, n.id)
                          ELSE RulesInOrder(t, n.id)) \o Go(i + 1)
    IN Go(1)

\* the nodes at and below c that hold children
RECURSIVE Subtree(_, _)
Subtree(t, c) ==
    {c} \cup UNION {Subtree(t, t[c].nodes[i].id) :
                        i \in {j \in 1..Len(t[c].nodes) : t[c].nodes[j].type # "decl"}}

IndexOfChild(nodes, id) ==
    CHOOSE i \in 1..Len(nodes) : nodes[i].type # "decl" /\ nodes[i].id = id

\* Node.after: the added node leaves the parent it has, then follows rule
After(t, rule, add) ==
    LET old == t[add].parent
        t1 == IF old = NoParent THEN t
              ELSE [t EXCEPT ![old].nodes =
                        SelectSeq(@, LAMBDA n : ~(n.type # "decl" /\ n.id = add))]
        p == t1[rule].parent
        i == IndexOfChild(t1[p].nodes, rule)
    IN [t1 EXCEPT ![p].nodes = SubSeq(@, 1, i) \o <<Child("rule", add)>>
                                   \o SubSeq(@, i + 1, Len(@)),
                  ![add].parent = p]

\* Map.prototype.set and get, on the sequence of entries
MapHas(map, key) == \E i \in 1..Len(map) : map[i][1] = key
MapGet(map, key) == map[CHOOSE i \in 1..Len(map) : map[i][1] = key][2]
MapSet(map, key, value) ==
    IF MapHas(map, key)
    THEN [i \in 1..Len(map) |-> IF map[i][1] = key THEN <<key, value>> ELSE map[i]]
    ELSE Append(map, <<key, value>>)
(***************************************************************************)
(* The Rule hook (plugin.ts 114-168): one call of it by the host.          *)
(***************************************************************************)
\* no guard
SkippedNever(selector) == FALSE

\* a guard that looks for the capable class
SkippedOnWebpClass(selector) == Includes(selector, Dot \o options.webpClass)

\* "Skip CSS rule if the selector already has WebP class"
Skipped(selector) == Includes(selector, Dot \o options.noWebpClass)

\* a callback that sees the declarations of the parsed rule again
MatchedOfInput(t, rule) == SelectSeq(walkDecls(input, rule), predicate)

\* the declarations the walkDecls callback does not return early on
Matched(t, rule) == SelectSeq(walkDecls(t, rule), predicate)

\* fallback declarations that take the renamed value
noWebpDeclarationsRenamed(matched) ==
    [i \in 1..Len(matched) |-> Decl(matched[i].prop, rename(matched[i]))]

noWebpDeclarations(matched) ==
    [i \in 1..Len(matched) |-> Decl(matched[i].prop, matched[i].value)]

webpDeclarations(matched) ==
    [i \in 1..Len(matched) |-> Decl(matched[i].prop, rename(matched[i]))]

\* the tree once declaration.remove() has run on every matched declaration
RemoveMatched(t, rule) ==
    [id \in DOMAIN t |->
        IF id \in Subtree(t, rule)
        THEN [t[id] EXCEPT !.nodes =
                SelectSeq(@, LAMBDA n : ~(n.type = "decl" /\ predicate(n)))]
        ELSE t[id]]

\* a fallback rule that gets the no-script selectors whatever addNoJs is
NoWebpRuleAlwaysNoJs(selectors, declarations) ==
    LET noWebpRule == NewRule(transformSelectors(selectors, options.noWebpClass),
                              declarations)
    IN SetSelectors(noWebpRule, Selectors(noWebpRule)
            \o transformSelectors(selectors, options.noJsClass))

NoWebpRule(selectors, declarations) ==
    LET noWebpRule == NewRule(transformSelectors(selectors, options.noWebpClass),
                              declarations)
    IN IF options.addNoJs
       THEN SetSelectors(noWebpRule, Selectors(noWebpRule)
                \o transformSelectors(selectors, options.noJsClass))
       ELSE noWebpRule

WebpRule(selectors, declarations) ==
    NewRule(transformSelectors(selectors, options.webpClass), declarations)

\* the position in rule.walkDecls of the declaration an override throws on,
\* 0 when none throws: the predicate is called on every declaration, rename
\* on the ones the predicate accepts
AbortAt(t, rule) ==
    IF options.predicate # "throws" /\ options.rename # "throws" THEN 0
    ELSE LET decls == walkDecls(t, rule)
             RECURSIVE Go(_)
             Go(i) == IF i > Len(decls) THEN 0
                      ELSE IF PredicateThrows(decls[i]) THEN i
                      ELSE IF RenameThrows(decls[i]) /\ predicate(decls[i]) THEN i
                      ELSE Go(i + 1)
         IN Go(1)

\* the number of declarations walkDecls passes before it enters container c
RECURSIVE DeclsBefore(_, _, _)
DeclsBefore(t, rule, c) ==
    IF c = rule THEN 0
    ELSE LET p == t[c].parent
             i == IndexOfChild(t[p].nodes, c)
         IN DeclsBefore(t, rule, p)
                + Len(walkDecls([t EXCEPT ![p].nodes = SubSeq(@, 1, i - 1)], p))

\* the tree when the callback threw on the declaration at position k: the
\* matched declarations before it are removed already
RemoveBefore(t, rule, k) ==
    [id \in DOMAIN t |->
        IF id \in Subtree(t, rule)
        THEN LET nodes == t[id].nodes
                 Position(i) == DeclsBefore(t, rule, id)
                                  + Len(walkDecls([t EXCEPT ![id].nodes = SubSeq(@, 1, i - 1)], id))
                                  + 1
                 RECURSIVE Go(_)
                 Go(i) == IF i > Len(nodes) THEN <<>>
                          ELSE (IF nodes[i].type = "decl" /\ Position(i) < k
                                   /\ predicate(nodes[i])
                                THEN <<>> ELSE <<nodes[i]>>) \o Go(i + 1)
             IN [t[id] EXCEPT !.nodes = Go(1)]
        ELSE t[id]]

\* the body of the Rule hook
RuleBody(rule) ==
    IF Skipped(tree[rule].selector)
    THEN UNCHANGED <<tree, noWebpRules, webpRules, nextId, pc>>
    ELSE IF AbortAt(tree, rule) > 0
    THEN /\ tree' = RemoveBefore(tree, rule, AbortAt(tree, rule))
         /\ pc' = "thrown"
         /\ UNCHANGED <<noWebpRules, webpRules, nextId>>
    ELSE LET matched == Matched(tree, rule)
             removed == RemoveMatched(tree, rule)
             selectors == Selectors(removed[rule])
             hasNoWebp == Len(noWebpDeclarations(matched)) > 0
             hasWebp == Len(webpDeclarations(matched)) > 0
             noWebpId == nextId
             webpId == IF hasNoWebp THEN nextId + 1 ELSE nextId
             created == (IF hasNoWebp THEN {noWebpId} ELSE {})
                            \cup (IF hasWebp THEN {webpId} ELSE {})
         IN /\ tree' = [id \in DOMAIN tree \cup created |->
                         IF hasNoWebp /\ id = noWebpId
                         THEN NoWebpRule(selectors, noWebpDeclarations(matched))
                         ELSE IF hasWebp /\ id = webpId
                         THEN WebpRule(selectors, webpDeclarations(matched))
                         ELSE removed[id]]
            /\ noWebpRules' = IF hasNoWebp THEN MapSet(noWebpRules, rule, noWebpId)
                              ELSE noWebpRules
            /\ webpRules' = IF hasWebp THEN MapSet(webpRules, rule, webpId)
                            ELSE webpRules
            /\ nextId' = nextId + Cardinality(created)
            /\ UNCHANGED pc

\* the rules around rule, from its parent up
RECURSIVE RuleAncestors(_, _)
RuleAncestors(t, rule) ==
    LET p == t[rule].parent
    IN IF p = NoParent THEN {}
       ELSE (IF t[p].type = "rule" THEN {p} ELSE {}) \cup RuleAncestors(t, p)

\* the host's dirty marks once the hook returned (Container.removeChild marks
\* the rule and its ancestors; the host clears the mark of a visited rule
\* that still has children before it walks them)
DirtyAfter(rule) ==
    LET lost == tree'[rule].nodes # tree[rule].nodes
    IN (dirty \ {rule})
         \cup (IF lost /\ tree'[rule].nodes = <<>> THEN {rule} ELSE {})
         \cup (IF lost THEN RuleAncestors(tree, rule) ELSE {})

\* the host calls the hook on the next rule of its walk
Rule(rule) ==
    /\ pc = "walk"
    /\ cursor <= Len(RulesInOrder(tree, RootId))
    /\ rule = RulesInOrder(tree, RootId)[cursor]
    /\ cursor' = cursor + 1
    /\ RuleBody(rule)
    /\ dirty' = DirtyAfter(rule)
    /\ UNCHANGED <<options, input, valIn, selIn, selOut, other, polyfillVars>>

\* the host walks the root again while it is dirty, and calls the hook again
\* on the rules marked dirty, in document order
RuleAgain(rule) ==
    /\ pc = "walk"
    /\ cursor > Len(RulesInOrder(tree, RootId))
    /\ rule \in dirty
    /\ \A i \in 1..Len(RulesInOrder(tree, RootId)) :
            RulesInOrder(tree, RootId)[i] = rule =>
                \A j \in 1..(i - 1) : RulesInOrder(tree, RootId)[j] \notin dirty
    /\ RuleBody(rule)
    /\ dirty' = DirtyAfter(rule)
    /\ UNCHANGED <<options, cursor, input, valIn, selIn, selOut, other, polyfillVars>>

(***************************************************************************)
(* The OnceExit hook (plugin.ts 169-179), called when the walk is over.    *)
(***************************************************************************)
RECURSIVE InsertEntries(_, _, _)
InsertEntries(t, map, i) ==
    IF i > Len(map) THEN t
    ELSE InsertEntries(After(t, map[i][1], map[i][2]), map, i + 1)

\* the two loops in the other order
InsertVariantsWebpFirst(t, noWebp, webp) ==
    InsertEntries(InsertEntries(t, webp, 1), noWebp, 1)

\* the noWebpRules loop, then the webpRules loop
InsertVariants(t, noWebp, webp) ==
    InsertEntries(InsertEntries(t, noWebp, 1), webp, 1)

OnceExit ==
    /\ pc = "walk"
    /\ cursor > Len(RulesInOrder(tree, RootId))
    /\ dirty = {}
    /\ tree' = InsertVariants(tree, noWebpRules, webpRules)
    /\ pc' = "done"
    /\ UNCHANGED <<options, noWebpRules, webpRules, cursor, nextId, input, valIn, selIn, selOut,
                   dirty, other, polyfillVars>>

(***************************************************************************)
(* Options of the plugin (plugin.ts 69-82).                                *)
(***************************************************************************)
DefaultOptions ==
    [predicate |-> "default", rename |-> "default",
     noWebpClass |-> DefaultNoWebpClass, noJsClass |-> DefaultNoJsClass,
     webpClass |-> DefaultWebpClass, addNoJs |-> FALSE, modules |-> FALSE]

CustomWebpClass == <<"c", "u", "s", "t", "o", "m", "-", "w", "e", "b", "p">>
CustomNoWebpClass == <<"c", "u", "s", "t", "o", "m", "-", "n", "o", "-", "w", "e", "b", "p">>
CustomNoJsClass == <<"n", "o", "-", "j", "a", "v", "a", "s", "c", "r", "i", "p", "t">>

\* the configurations the test suite runs the plugin with
OptionSets ==
    { DefaultOptions,
      [DefaultOptions EXCEPT !.webpClass = CustomWebpClass, !.noWebpClass = CustomNoWebpClass],
      [DefaultOptions EXCEPT !.addNoJs = TRUE, !.noJsClass = CustomNoJsClass],
      [DefaultOptions EXCEPT !.modules = TRUE],
      [DefaultOptions EXCEPT !.addNoJs = TRUE, !.modules = TRUE],
      [DefaultOptions EXCEPT !.rename = "custom"],
      [DefaultOptions EXCEPT !.predicate = "custom"] }

(***************************************************************************)
(* Input stylesheets: up to MaxRules rules, each of one of the kinds       *)
(* below, at top level, in the @media block, or nested in an earlier rule. *)
(***************************************************************************)
UrlAPng == <<"u", "r", "l", "(", "a", ".", "p", "n", "g", ")">>
\* image-set("b.jpg" type("image/jpeg"))
SetBJpg == <<"i", "m", "a", "g", "e", "-", "s", "e", "t", "(", "\"", "b", ".", "j", "p", "g",
             "\"", " ", "t", "y", "p", "e", "(", "\"", "i", "m", "a", "g", "e", "/", "j", "p",
             "e", "g", "\"", ")", ")">>
UrlCPng == <<"u", "r", "l", "(", "c", ".", "p", "n", "g", ")">>
UrlAWebp == <<"u", "r", "l", "(", "a", ".", "w", "e", "b", "p", ")">>
Red == <<"r", "e", "d">>

RuleKinds == <<
    \* section { background: url(a.png); color: red }
    [selector |-> <<"s", "e", "c", "t", "i", "o", "n">>,
     decls |-> <<Decl("background", UrlAPng), Decl("color", Red)>>],
    \* main, section { color: red; background-image: image-set("b.jpg" type("image/jpeg")); border-image: url(c.png) }
    [selector |-> <<"m", "a", "i", "n", ",", " ", "s", "e", "c", "t", "i", "o", "n">>,
     decls |-> <<Decl("color", Red), Decl("background-image", SetBJpg),
                 Decl("border-image", UrlCPng)>>],
    \* html.no-webp main, section.custom-no-webp { background: url(a.png) }
    [selector |-> <<"h", "t", "m", "l", ".", "n", "o", "-", "w", "e", "b", "p", " ",
                    "m", "a", "i", "n", ",", " ", "s", "e", "c", "t", "i", "o", "n", ".",
                    "c", "u", "s", "t", "o", "m", "-", "n", "o", "-", "w", "e", "b", "p">>,
     decls |-> <<Decl("background", UrlAPng)>>],
    \* :root { color: red; background: url(a.webp) }
    [selector |-> RootPseudo, decls |-> <<Decl("color", Red), Decl("background", UrlAWebp)>>],
    \* .no-js main { background: url(a.png) }
    [selector |-> <<".", "n", "o", "-", "j", "s", " ", "m", "a", "i", "n">>,
     decls |-> <<Decl("background", UrlAPng)>>],
    \* main { }
    [selector |-> <<"m", "a", "i", "n">>, decls |-> <<>>] >>

InputRules == 1..MaxRules

\* where rule r may sit: top level, the @media block, or a rule before it
Shapes ==
    { shape \in [InputRules -> {RootId, AtRuleId} \cup InputRules] :
        \A r \in InputRules :
            shape[r] \in InputRules =>
                shape[r] < r /\ shape[shape[r]] \notin InputRules }

ChildrenOf(shape, c) ==
    LET RECURSIVE Go(_)
        Go(r) == IF r > MaxRules THEN <<>>
                 ELSE IF shape[r] = c THEN <<Child("rule", r)>> \o Go(r + 1)
                 ELSE IF c = RootId /\ shape[r] = AtRuleId
                         /\ \A q \in 1..(r - 1) : shape[q] # AtRuleId
                 THEN <<Child("atrule", AtRuleId)>> \o Go(r + 1)
                 ELSE Go(r + 1)
    IN Go(1)

InputTree(shape, kind) ==
    [id \in {RootId, AtRuleId} \cup InputRules |->
        IF id = RootId
        THEN [type |-> "root", selector |-> <<>>, nodes |-> ChildrenOf(shape, RootId),
              parent |-> NoParent]
        ELSE IF id = AtRuleId
        THEN [type |-> "atrule", selector |-> <<>>, nodes |-> ChildrenOf(shape, AtRuleId),
              parent |-> IF \E r \in InputRules : shape[r] = AtRuleId
                         THEN RootId ELSE NoParent]
        ELSE [type |-> "rule", selector |-> RuleKinds[kind[id]].selector,
              nodes |-> RuleKinds[kind[id]].decls \o ChildrenOf(shape, id),
              parent |-> shape[id]]]

NoCall == [selectors |-> <<>>, className |-> <<>>]

NoInvocation == [pc |-> "none"]
NoImage == [src |-> "", height |-> 0, handlers |-> {}, fired |-> <<>>]

\* one invocation, nothing marked dirty, and no page
OneInvocation ==
    /\ dirty = {}
    /\ other = NoInvocation
    /\ classList = <<>>
    /\ image = NoImage

\* the host parsed a stylesheet and starts its walk
Parsed ==
    /\ \E shape \in Shapes, kind \in [InputRules -> 1..Len(RuleKinds)] :
            tree = InputTree(shape, kind)
    /\ noWebpRules = <<>>
    /\ webpRules = <<>>
    /\ cursor = 1
    /\ pc = "walk"
    /\ nextId = FirstNewId
    /\ input = tree
    /\ valIn = <<>>
    /\ selIn = NoCall
    /\ selOut = <<>>
    /\ OneInvocation

Init == options \in OptionSets /\ Parsed

Next ==
    \/ \E rule \in InputRules : Rule(rule)
    \/ \E rule \in InputRules : RuleAgain(rule)
    \/ OnceExit

Spec == Init /\ [][Next]_vars

(***************************************************************************)
(* The plugin with an override that throws.                                *)
(***************************************************************************)
ThrowingOptionSets ==
    { [DefaultOptions EXCEPT !.predicate = "throws"],
      [DefaultOptions EXCEPT !.rename = "throws"] }

InitThrow == options \in ThrowingOptionSets /\ Parsed

SpecThrow == InitThrow /\ [][Next]_vars
(***************************************************************************)
(* A stylesheet of one rule, section { background: <value>; color: red },  *)
(* whose value is made of up to MaxValChunks of the pieces below.          *)
(***************************************************************************)
ValChunks == <<
    <<".", "j", "p", "g">>, <<".", "j", "p", "e", "g">>, <<".", "p", "n", "g">>,
    <<".", "g", "i", "f">>, <<".", "a", "v", "i", "f">>, <<".", "P", "N", "G">>,
    <<"i", "m", "a", "g", "e", "/", "j", "p", "e", "g">>,
    <<"i", "m", "a", "g", "e", "/", "p", "n", "g">>,
    <<"i", "m", "a", "g", "e", "/", "j", "p", "g">>,
    <<".", "w", "e", "b", "p">>, <<".", "c", "u", "r">>, <<".", "j", "p", "e">>,
    <<"u", "r", "l", "(">> >>

Flatten(chunks) ==
    LET RECURSIVE Go(_)
        Go(i) == IF i > Len(chunks) THEN <<>> ELSE chunks[i] \o Go(i + 1)
    IN Go(1)

ChunkSeqs(pieces, n) == UNION {[1..k -> 1..Len(pieces)] : k \in 0..n}

ValueOf(picked) == Flatten([i \in 1..Len(picked) |-> ValChunks[picked[i]]])

InitVal ==
    /\ options = DefaultOptions
    /\ valIn \in ChunkSeqs(ValChunks, MaxValChunks)
    /\ Len(valIn) > 0
    /\ tree = [id \in {RootId, 1} |->
                IF id = RootId
                THEN [type |-> "root", selector |-> <<>>, nodes |-> <<Child("rule", 1)>>,
                      parent |-> NoParent]
                ELSE [type |-> "rule", selector |-> <<"s", "e", "c", "t", "i", "o", "n">>,
                      nodes |-> <<Decl("background", ValueOf(valIn)), Decl("color", Red)>>,
                      parent |-> RootId]]
    /\ noWebpRules = <<>>
    /\ webpRules = <<>>
    /\ cursor = 1
    /\ pc = "walk"
    /\ nextId = FirstNewId
    /\ input = tree
    /\ selIn = NoCall
    /\ selOut = <<>>
    /\ OneInvocation

\* the rule keeps its color declaration, so the host never visits it again
NextVal == (\E rule \in InputRules : Rule(rule)) \/ OnceExit

SpecVal == InitVal /\ [][NextVal]_vars

(***************************************************************************)
(* A lone call transformSelectors(selectors, className), on selectors as   *)
(* the Rule hook passes them: trimmed pieces of a selector that does not   *)
(* hold the fallback class.                                                *)
(***************************************************************************)
SelChunks == <<
    Html, RootPseudo, Space, <<"m", "a", "i", "n">>,
    Dot \o DefaultWebpClass, Dot \o DefaultNoJsClass,
    GlobalOpen \o DefaultWebpClass \o GlobalClose >>

SelectorOf(picked) == Flatten([i \in 1..Len(picked) |-> SelChunks[picked[i]]])

EnumeratedSelectors ==
    {s \in {SelectorOf(picked) : picked \in ChunkSeqs(SelChunks, MaxSelChunks)} :
        Trim(s) = s}

SelectorLists ==
    UNION {{<<s>>, <<s, <<"m", "a", "i", "n">>>>, <<RootPseudo, s>>} :
                s \in EnumeratedSelectors}

InitSel ==
    /\ options \in {DefaultOptions, [DefaultOptions EXCEPT !.modules = TRUE]}
    /\ selIn \in [selectors : SelectorLists,
                  className : {options.noWebpClass, options.webpClass, options.noJsClass}]
    /\ ~Skipped(Join(selIn.selectors, Comma))
    /\ selOut = <<>>
    /\ pc = "call"
    /\ tree = [id \in {RootId} |->
                [type |-> "root", selector |-> <<>>, nodes |-> <<>>, parent |-> NoParent]]
    /\ noWebpRules = <<>>
    /\ webpRules = <<>>
    /\ cursor = 1
    /\ nextId = FirstNewId
    /\ input = tree
    /\ valIn = <<>>
    /\ OneInvocation

CallTransformSelectors ==
    /\ pc = "call"
    /\ selOut' = transformSelectors(selIn.selectors, selIn.className)
    /\ pc' = "returned"
    /\ UNCHANGED <<options, tree, noWebpRules, webpRules, cursor, nextId, input, valIn, selIn,
                   dirty, other, polyfillVars>>

NextSel == CallTransformSelectors

SpecSel == InitSel /\ [][NextSel]_vars
(***************************************************************************)
(* Several invocations.  The host (a PostCSS Processor) calls the hooks of *)
(* one plugin object for every stylesheet it processes, and it runs its    *)
(* walk asynchronously: when another plugin's visitor returns a promise,   *)
(* an invocation is suspended between two hook calls and another one runs. *)
(* The variables cursor, pc, nextId, input, dirty belong to the invocation *)
(* that is running, whose nodes have the identities below IdSpace; the     *)
(* nodes of the other invocation's stylesheet are kept in tree under the   *)
(* identities from IdSpace on, and other holds its cursor, pc, nextId,     *)
(* input and dirty.  The two maps are the plugin object's (plugin.ts       *)
(* 107-110): they are the same for both invocations.                       *)
(***************************************************************************)
RunRules == 1       \* rules of a stylesheet that is processed more than once

IdSpace == 10 * (MaxRules + 1)

OtherId(id) ==
    IF id = NoParent THEN NoParent
    ELSE IF id < IdSpace THEN id + IdSpace
    ELSE id - IdSpace

SwapNode(n) ==
    [type |-> n.type, selector |-> n.selector, parent |-> OtherId(n.parent),
     nodes |-> [i \in 1..Len(n.nodes) |-> [n.nodes[i] EXCEPT !.id = OtherId(n.nodes[i].id)]]]

\* the same nodes, the two stylesheets' identities exchanged
SwapTree(t) == [id \in {OtherId(i) : i \in DOMAIN t} |-> SwapNode(t[OtherId(id)])]

SwapMap(map) == [i \in 1..Len(map) |-> <<OtherId(map[i][1]), OtherId(map[i][2])>>]

\* the nodes of the running invocation's stylesheet, in or out of its tree
Sheet(t) == [id \in {i \in DOMAIN t : i < IdSpace} |-> t[id]]

\* the nodes below the root
Attached(t) == [id \in Subtree(t, RootId) |-> t[id]]

\* the stylesheet the host parses from the text of t: new nodes for what is
\* below the root, a selector without the blanks around it
Reparse(t) == [id \in Subtree(t, RootId) |-> [t[id] EXCEPT !.selector = Trim(@)]]

\* the running invocation as the host keeps it while the other one runs;
\* second tells what the second invocation was given: "output" or "text"
Suspended(second) ==
    [pc |-> pc, cursor |-> cursor, nextId |-> nextId, input |-> input, dirty |-> dirty,
     second |-> second]

\* the output of the finished invocation is processed again, by the same
\* plugin object (the same Processor) or by a new one
ProcessOutput(samePlugin) ==
    /\ pc = "done"
    /\ other = NoInvocation
    /\ tree' = IF samePlugin THEN Reparse(tree) @@ SwapTree(Sheet(tree)) ELSE Reparse(tree)
    /\ noWebpRules' = IF samePlugin THEN SwapMap(noWebpRules) ELSE <<>>
    /\ webpRules' = IF samePlugin THEN SwapMap(webpRules) ELSE <<>>
    /\ input' = Reparse(tree)
    /\ other' = Suspended("output")
    /\ cursor' = 1
    /\ pc' = "walk"
    /\ dirty' = {}
    /\ UNCHANGED <<options, nextId, valIn, selIn, selOut, polyfillVars>>

\* the Processor is given the same text again while its first invocation
\* is suspended
ProcessAnother ==
    /\ pc = "walk"
    /\ other = NoInvocation
    /\ tree' = Reparse(input) @@ SwapTree(Sheet(tree))
    /\ noWebpRules' = SwapMap(noWebpRules)
    /\ webpRules' = SwapMap(webpRules)
    /\ input' = Reparse(input)
    /\ other' = Suspended("text")
    /\ cursor' = 1
    /\ pc' = "walk"
    /\ dirty' = {}
    /\ nextId' = FirstNewId
    /\ UNCHANGED <<options, valIn, selIn, selOut, polyfillVars>>

\* the host suspends the running invocation, or is done with it, and
\* resumes the other one
Switch ==
    /\ pc \in {"walk", "done"}
    /\ other # NoInvocation
    /\ other.pc = "walk"
    /\ tree' = SwapTree(tree)
    /\ noWebpRules' = SwapMap(noWebpRules)
    /\ webpRules' = SwapMap(webpRules)
    /\ cursor' = other.cursor
    /\ pc' = other.pc
    /\ nextId' = other.nextId
    /\ input' = other.input
    /\ dirty' = other.dirty
    /\ other' = Suspended(other.second)
    /\ UNCHANGED <<options, valIn, selIn, selOut, polyfillVars>>

\* every identity a rule of the running invocation can have
SheetRules == 1..(IdSpace - 1)

\* the plugin with the default classifier, on stylesheets whose rules after
\* the first RunRules are main { } at top level
InitRuns ==
    /\ Init
    /\ options.predicate = "default"
    /\ options.rename = "default"
    /\ \A r \in InputRules :
            r > RunRules => /\ tree[r].selector = RuleKinds[Len(RuleKinds)].selector
                            /\ tree[r].nodes = <<>>
                            /\ tree[r].parent = RootId

NextRuns ==
    \/ \E rule \in SheetRules : Rule(rule)
    \/ \E rule \in SheetRules : RuleAgain(rule)
    \/ OnceExit
    \/ \E samePlugin \in BOOLEAN : ProcessOutput(samePlugin)
    \/ ProcessAnother
    \/ Switch

SpecRuns == InitRuns /\ [][NextRuns]_vars

(***************************************************************************)
(* The polyfill (src/polyfill, the script the polyfill tests load): one    *)
(* action for each statement of the script, then the image's load or       *)
(* error event.  pc is the statement the script is at, "loading" once the  *)
(* script is over, "fired" after the event.                                *)
(***************************************************************************)
MaxHeight == 2      \* heights an image reports when its load event fires

Range(list) == {list[i] : i \in 1..Len(list)}

\* an ordered set: the first of equal tokens stays
RECURSIVE Distinct(_)
Distinct(list) ==
    IF list = <<>> THEN <<>>
    ELSE LET front == Distinct(SubSeq(list, 1, Len(list) - 1))
             last == list[Len(list)]
         IN IF last \in Range(front) THEN front ELSE Append(front, last)

\* DOMTokenList.replace: nothing without the token; else the token becomes
\* newToken, which the set keeps once
TokenReplace(list, token, newToken) ==
    IF token \notin Range(list) THEN list
    ELSE Distinct([i \in 1..Len(list) |-> IF list[i] = token THEN newToken ELSE list[i]])

\* a DOMTokenList.add that adds nothing
TokenAddNothing(list, token) == list

\* DOMTokenList.add
TokenAdd(list, token) ==
    IF token \in Range(list) THEN list ELSE Append(list, token)

\* a handler that takes every event for support
MarkerClassWebp(height) == "webp"

\* (image.height)? "webp": "no-webp"
MarkerClass(height) == IF height # 0 THEN "webp" ELSE "no-webp"

\* the class names of the root element when the script starts: the page of
\* the plugin's users has no-js there, and neither marker class
PageClasses == {"no-js", "js", "page", "dark"}

PageClassLists ==
    {list \in UNION {[1..n -> PageClasses] : n \in 0..Cardinality(PageClasses)} :
        Distinct(list) = list}

\* document.documentElement.classList.replace("no-js", "js")
ReplaceNoJs ==
    /\ pc = "replace"
    /\ classList' = TokenReplace(classList, "no-js", "js")
    /\ pc' = "image"
    /\ UNCHANGED <<options, tree, noWebpRules, webpRules, cursor, nextId, input, valIn, selIn,
                   selOut, dirty, other, image>>

\* const image = new Image()
NewImage ==
    /\ pc = "image"
    /\ image' = [NoImage EXCEPT !.src = "about:blank"]
    /\ pc' = "handlers"
    /\ UNCHANGED <<options, tree, noWebpRules, webpRules, cursor, nextId, input, valIn, selIn,
                   selOut, dirty, other, classList>>

\* image.onload = image.onerror = function() { ... }
SetHandlers ==
    /\ pc = "handlers"
    /\ image' = [image EXCEPT !.handlers = {"load", "error"}]
    /\ pc' = "src"
    /\ UNCHANGED <<options, tree, noWebpRules, webpRules, cursor, nextId, input, valIn, selIn,
                   selOut, dirty, other, classList>>

\* image.src = "data:image/webp;base64,..."
SetSrc ==
    /\ pc = "src"
    /\ image' = [image EXCEPT !.src = "data:image/webp"]
    /\ pc' = "loading"
    /\ UNCHANGED <<options, tree, noWebpRules, webpRules, cursor, nextId, input, valIn, selIn,
                   selOut, dirty, other, classList>>

\* the handler of both events
Handler(event, height) ==
    /\ image' = [image EXCEPT !.height = height, !.fired = Append(@, event)]
    /\ classList' = IF event \in image.handlers
                    THEN TokenAdd(classList, MarkerClass(height))
                    ELSE classList
    /\ pc' = "fired"
    /\ UNCHANGED <<options, tree, noWebpRules, webpRules, cursor, nextId, input, valIn, selIn,
                   selOut, dirty, other>>

\* the browser decoded the image: load fires, the image reports its height
\* (0 in browsers that fire load without decoding WebP)
Load(height) ==
    /\ pc = "loading"
    /\ image.src = "data:image/webp"
    /\ Handler("load", height)

\* the browser could not decode the image: error fires, and an image that
\* is not available reports the height 0
Error ==
    /\ pc = "loading"
    /\ image.src = "data:image/webp"
    /\ Handler("error", 0)

InitPolyfill ==
    /\ classList \in PageClassLists
    /\ image = NoImage
    /\ pc = "replace"
    /\ options = DefaultOptions
    /\ tree = [id \in {RootId} |->
                [type |-> "root", selector |-> <<>>, nodes |-> <<>>, parent |-> NoParent]]
    /\ noWebpRules = <<>>
    /\ webpRules = <<>>
    /\ cursor = 1
    /\ nextId = FirstNewId
    /\ input = classList
    /\ valIn = <<>>
    /\ selIn = NoCall
    /\ selOut = <<>>
    /\ dirty = {}
    /\ other = NoInvocation

NextPolyfill ==
    \/ ReplaceNoJs
    \/ NewImage
    \/ SetHandlers
    \/ SetSrc
    \/ \E height \in 0..MaxHeight : Load(height)
    \/ Error

SpecPolyfill == InitPolyfill /\ [][NextPolyfill]_vars

(***************************************************************************)
(* Vocabulary of the properties.                                           *)
(***************************************************************************)
\* the declaration satisfies the effective predicate of the options
Matches(d) ==
    IF options.predicate = "custom" THEN d.prop = "background-image"
    ELSE RegexTest(d.value, ExtensionRegex)

NotMatches(d) == ~Matches(d)

\* the selector holds the fallback marker class token
HasFallbackMarker(selector) == Includes(selector, Dot \o options.noWebpClass)

OwnDecls(t, r) == SelectSeq(t[r].nodes, LAMBDA n : n.type = "decl")

HasNestedRule(t, r) == \E i \in 1..Len(t[r].nodes) : t[r].nodes[i].type # "decl"

\* a and b are the two siblings right after r, in this order
Follows(t, r, a, b) ==
    LET ns == t[t[r].parent].nodes
        i == IndexOfChild(ns, r)
    IN /\ i + 2 <= Len(ns)
       /\ ns[i + 1] = Child("rule", a)
       /\ ns[i + 2] = Child("rule", b)

\* the sibling right after r, NoParent when r is the last child
NextSibling(t, r) ==
    LET ns == t[t[r].parent].nodes
        i == IndexOfChild(ns, r)
    IN IF i < Len(ns) THEN ns[i + 1].id ELSE NoParent

\* the host is calling the Rule hook on r in this step
VisitOf(r) ==
    /\ pc = "walk"
    /\ cursor <= Len(RulesInOrder(tree, RootId))
    /\ RulesInOrder(tree, RootId)[cursor] = r
    /\ cursor' = cursor + 1

Visited(r) ==
    \E i \in 1..(cursor - 1) :
        i <= Len(RulesInOrder(tree, RootId)) /\ RulesInOrder(tree, RootId)[i] = r

IsInputRule(id) == id \in InputRules

\* a is b with some elements left out
IsSubseq(a, b) ==
    LET RECURSIVE Go(_, _)
        Go(i, j) == IF i > Len(a) THEN TRUE
                    ELSE IF j > Len(b) THEN FALSE
                    ELSE IF a[i] = b[j] THEN Go(i + 1, j + 1)
                    ELSE Go(i, j + 1)
    IN Go(1, 1)

BothVariants(r) == MapHas(noWebpRules, r) /\ MapHas(webpRules, r)

(***************************************************************************)
(* C1: after OnceExit every original rule with a matching declaration     *)
(* (and without the fallback marker in its selector) is followed in its    *)
(* parent by its capable variant and then its fallback variant, the rule   *)
(* itself keeping its non-matching declarations; the original rules keep   *)
(* their document order.                                                   *)
(***************************************************************************)
C1_OriginalCapableFallback ==
    pc = "done" =>
        /\ \A r \in InputRules :
             ( /\ ~HasFallbackMarker(input[r].selector)
               /\ \E i \in 1..Len(OwnDecls(input, r)) : Matches(OwnDecls(input, r)[i]) )
             => /\ BothVariants(r)
                /\ tree[r].parent = input[r].parent
                /\ Follows(tree, r, MapGet(webpRules, r), MapGet(noWebpRules, r))
                /\ OwnDecls(tree, r) = SelectSeq(OwnDecls(input, r), NotMatches)
        /\ SelectSeq(RulesInOrder(tree, RootId), IsInputRule) = RulesInOrder(input, RootId)

(***************************************************************************)
(* C2 as claimed: after OnceExit a rule with both variants is followed by  *)
(* its fallback variant and then its capable variant.                      *)
(***************************************************************************)
C2_OriginalFallbackCapable ==
    pc = "done" =>
        \A r \in InputRules :
            BothVariants(r) =>
                Follows(tree, r, MapGet(noWebpRules, r), MapGet(webpRules, r))

(***************************************************************************)
(* C2 amended: after OnceExit a rule with both variants, now without its   *)
(* matched declarations, is followed by its capable variant and then its   *)
(* fallback variant: the second pass puts each capable variant between     *)
(* the original and the fallback variant the first pass put after it.      *)
(***************************************************************************)
C2_CapableBeforeFallback ==
    pc = "done" =>
        \A r \in InputRules :
            BothVariants(r) =>
                /\ Follows(tree, r, MapGet(webpRules, r), MapGet(noWebpRules, r))
                /\ \A i \in 1..Len(OwnDecls(tree, r)) : ~Matches(OwnDecls(tree, r)[i])

C2_Witness ==
    /\ pc = "done"
    /\ Len(noWebpRules) >= 2
    /\ \E r \in InputRules : BothVariants(r) /\ tree[r].parent = AtRuleId

(***************************************************************************)
(* C3: a visit of a rule without the fallback marker leaves the rule's     *)
(* non-matching declarations in place, in order and unchanged, and puts    *)
(* its matching declarations, in order, into both variants: the fallback   *)
(* variant with the original values, the capable variant with the same     *)
(* properties; the two variants have the same length, and the rule gets    *)
(* both or neither.                                                        *)
(***************************************************************************)
C3_Partition ==
    [][\A r \in InputRules :
        (VisitOf(r) /\ ~HasFallbackMarker(tree[r].selector)) =>
            LET own == OwnDecls(tree, r)
                moved == SelectSeq(own, Matches)
            IN /\ OwnDecls(tree', r) = SelectSeq(own, NotMatches)
               /\ MapHas(noWebpRules', r) <=> MapHas(webpRules', r)
               /\ moved # <<>> =>
                    /\ MapHas(noWebpRules', r)
                    /\ LET fallback == tree'[MapGet(noWebpRules', r)].nodes
                           capable == tree'[MapGet(webpRules', r)].nodes
                       IN /\ Len(fallback) = Len(capable)
                          /\ IsSubseq(moved, fallback)
                          /\ ~HasNestedRule(tree, r) => fallback = moved
                          /\ \A i \in 1..Len(fallback) :
                                /\ capable[i].prop = fallback[i].prop
                                /\ capable[i].type = "decl"
               /\ moved = <<>> /\ ~HasNestedRule(tree, r) => ~MapHas(noWebpRules', r)
      ]_vars

C3_Witness ==
    \E r \in InputRules :
        /\ Visited(r)
        /\ BothVariants(r)
        /\ Len(tree[MapGet(noWebpRules, r)].nodes) >= 2
        /\ Len(OwnDecls(tree, r)) >= 1

(***************************************************************************)
(* C4: a rule none of whose declarations satisfies the predicate keeps     *)
(* all its declarations, is a key of neither map, and gets no sibling.     *)
(***************************************************************************)
C4_UnmatchedRuleUntouched ==
    \A r \in InputRules :
        (\A i \in 1..Len(OwnDecls(input, r)) : ~Matches(OwnDecls(input, r)[i]))
        => /\ OwnDecls(tree, r) = OwnDecls(input, r)
           /\ ~MapHas(noWebpRules, r)
           /\ ~MapHas(webpRules, r)
           /\ NextSibling(tree, r) < FirstNewId

(***************************************************************************)
(* C5: the visit of a rule whose selector holds the fallback marker class  *)
(* changes nothing; such a rule never becomes a key of a map, and OnceExit *)
(* puts no new sibling after it.                                           *)
(***************************************************************************)
C5_MarkedRuleSkipped ==
    [][\A r \in InputRules :
        HasFallbackMarker(tree[r].selector) =>
            /\ VisitOf(r) => /\ tree' = tree
                             /\ noWebpRules' = noWebpRules
                             /\ webpRules' = webpRules
            /\ ~MapHas(noWebpRules', r)
            /\ ~MapHas(webpRules', r)
            /\ NextSibling(tree', r) = NextSibling(tree, r)
      ]_vars

C5_Witness ==
    \E r \in InputRules :
        /\ pc = "done"
        /\ HasFallbackMarker(tree[r].selector)
        /\ \E i \in 1..Len(OwnDecls(tree, r)) : Matches(OwnDecls(tree, r)[i])
        /\ Len(noWebpRules) >= 1
(***************************************************************************)
(* Vocabulary of the selector properties.                                  *)
(***************************************************************************)
\* the marker class text of a class name: .<name>, or :global(.<name>)
MarkerText(className) ==
    IF options.modules
    THEN <<":", "g", "l", "o", "b", "a", "l", "(", ".">> \o className \o <<")">>
    ELSE <<".">> \o className

OccursAt(s, k, pat) == k >= 1 /\ k + Len(pat) - 1 <= Len(s) /\ SubSeq(s, k, k + Len(pat) - 1) = pat

Occurrences(s, pat) == {k \in 1..Len(s) : OccursAt(s, k, pat)}

FirstOccurrence(s, pat) ==
    CHOOSE k \in Occurrences(s, pat) : \A j \in Occurrences(s, pat) : k <= j

\* s without the first occurrence of pat
Stripped(s, pat) ==
    IF Occurrences(s, pat) = {} THEN s
    ELSE SubSeq(s, 1, FirstOccurrence(s, pat) - 1)
            \o SubSeq(s, FirstOccurrence(s, pat) + Len(pat), Len(s))

Cleaned(selector, marker) == Stripped(Stripped(selector, marker), RootPseudo)

TrimAll(list) == [i \in 1..Len(list) |-> Trim(list[i])]

(***************************************************************************)
(* C6: every output selector of transformSelectors is, by the cleaned      *)
(* input selector (its first marker token and first :root stripped):       *)
(* with html in it, the cleaned selector with the marker put right after   *)
(* its first html; else, when not empty, html<marker>, a space and the     *)
(* cleaned selector; else exactly html<marker>.                            *)
(***************************************************************************)
C6_TransformByCases ==
    pc = "returned" =>
        /\ Len(selOut) = Len(selIn.selectors)
        /\ \A i \in 1..Len(selIn.selectors) :
            LET marker == MarkerText(selIn.className)
                cleaned == Cleaned(selIn.selectors[i], marker)
            IN IF Occurrences(cleaned, Html) # {}
               THEN LET k == FirstOccurrence(cleaned, Html)
                    IN selOut[i] = SubSeq(cleaned, 1, k + Len(Html) - 1) \o marker
                                      \o SubSeq(cleaned, k + Len(Html), Len(cleaned))
               ELSE IF cleaned # <<>>
               THEN selOut[i] = Html \o marker \o Space \o cleaned
               ELSE selOut[i] = Html \o marker

C6_Witness ==
    /\ pc = "returned"
    /\ Len(selIn.selectors) = 2
    /\ selIn.selectors[1] = RootPseudo
    /\ Occurrences(selIn.selectors[2], Html) # {}
    /\ Occurrences(selIn.selectors[2], MarkerText(selIn.className)) # {}
    /\ Occurrences(selIn.selectors[2], RootPseudo) # {}

(***************************************************************************)
(* C7: the output of transformSelectors has as many selectors as its       *)
(* input, and every output selector holds the marker class token exactly   *)
(* once.                                                                   *)
(***************************************************************************)
C7_OneMarkerEach ==
    pc = "returned" =>
        /\ Len(selOut) = Len(selIn.selectors)
        /\ \A i \in 1..Len(selOut) :
            Cardinality(Occurrences(selOut[i], MarkerText(selIn.className))) = 1

(***************************************************************************)
(* C8 as claimed: with addNoJs the fallback variant lists the fallback     *)
(* selectors and then the no-script selectors of the original rule, twice  *)
(* its selector count, the capable variant being unaffected; without       *)
(* addNoJs no selector of a variant holds the no-script class.             *)
(***************************************************************************)
VariantSelectors(map, r) == Selectors(tree[MapGet(map, r)])

C8_NoJsOnlyWhenAsked ==
    \A r \in InputRules :
        BothVariants(r) =>
            LET original == Selectors(tree[r])
                fallback == VariantSelectors(noWebpRules, r)
                capable == VariantSelectors(webpRules, r)
            IN /\ options.addNoJs =>
                    /\ fallback = TrimAll(transformSelectors(original, options.noWebpClass)
                                    \o transformSelectors(original, options.noJsClass))
                    /\ Len(fallback) = Len(original) + Len(original)
               /\ capable = TrimAll(transformSelectors(original, options.webpClass))
               /\ ~options.addNoJs =>
                    \A i \in 1..Len(fallback) :
                        /\ Occurrences(fallback[i], Dot \o options.noJsClass) = {}
                        /\ Occurrences(capable[i], Dot \o options.noJsClass) = {}

(***************************************************************************)
(* C8 amended: with addNoJs the fallback variant lists the fallback        *)
(* selectors and then the no-script selectors of the original rule, twice  *)
(* its selector count; without addNoJs it lists the fallback selectors     *)
(* alone, one for each original selector; the capable variant lists the    *)
(* capable selectors either way.                                           *)
(***************************************************************************)
C8_NoJsAppendedWhenAsked ==
    \A r \in InputRules :
        BothVariants(r) =>
            LET original == Selectors(tree[r])
                fallback == VariantSelectors(noWebpRules, r)
                capable == VariantSelectors(webpRules, r)
            IN /\ options.addNoJs =>
                    /\ fallback = TrimAll(transformSelectors(original, options.noWebpClass)
                                    \o transformSelectors(original, options.noJsClass))
                    /\ Len(fallback) = Len(original) + Len(original)
               /\ capable = TrimAll(transformSelectors(original, options.webpClass))
               /\ Len(capable) = Len(original)
               /\ ~options.addNoJs =>
                    /\ fallback = TrimAll(transformSelectors(original, options.noWebpClass))
                    /\ Len(fallback) = Len(original)

C8_Witness ==
    \E r \in InputRules :
        /\ options.addNoJs
        /\ options.modules
        /\ BothVariants(r)
        /\ Len(Selectors(tree[r])) = 2
        /\ Len(VariantSelectors(noWebpRules, r)) = 4

(***************************************************************************)
(* C9: with the default classifier, a value with a raster extension gets   *)
(* a capable variant whose value is the original with every raster         *)
(* extension replaced by .webp and every image/jpeg, image/png MIME token  *)
(* replaced by image/webp, every other piece unchanged; the fallback       *)
(* variant keeps the original value and the other declaration stays.       *)
(***************************************************************************)
RasterPieces ==
    { <<".", "j", "p", "g">>, <<".", "j", "p", "e", "g">>, <<".", "p", "n", "g">>,
      <<".", "g", "i", "f">>, <<".", "a", "v", "i", "f">>, <<".", "P", "N", "G">> }

MimePieces ==
    { <<"i", "m", "a", "g", "e", "/", "j", "p", "e", "g">>,
      <<"i", "m", "a", "g", "e", "/", "p", "n", "g">> }

ExpectedPiece(piece) ==
    IF piece \in RasterPieces THEN <<".", "w", "e", "b", "p">>
    ELSE IF piece \in MimePieces THEN <<"i", "m", "a", "g", "e", "/", "w", "e", "b", "p">>
    ELSE piece

ExpectedValue(picked) ==
    Flatten([i \in 1..Len(picked) |-> ExpectedPiece(ValChunks[picked[i]])])

HasRasterPiece(picked) == \E i \in 1..Len(picked) : ValChunks[picked[i]] \in RasterPieces

C9_DefaultRename ==
    (cursor > 1 /\ HasRasterPiece(valIn)) =>
        /\ BothVariants(1)
        /\ tree[MapGet(webpRules, 1)].nodes = <<Decl("background", ExpectedValue(valIn))>>
        /\ tree[MapGet(noWebpRules, 1)].nodes = <<Decl("background", ValueOf(valIn))>>
        /\ tree[1].nodes = <<Decl("color", Red)>>

C9_Witness ==
    /\ pc = "done"
    /\ Len(valIn) = 2
    /\ ValChunks[valIn[1]] \in RasterPieces
    /\ ValChunks[valIn[2]] \in RasterPieces
    /\ BothVariants(1)

(***************************************************************************)
(* C10: the visit of a rule without the fallback marker moves exactly the  *)
(* declarations the effective predicate accepts (the override alone when   *)
(* one is given), and the capable variant's values are the effective       *)
(* rename's (the override alone when one is given).                        *)
(***************************************************************************)
EffectiveRename(d) ==
    IF options.rename = "custom"
    THEN RegexReplaceAll(d.value, ExtensionRegex,
                         <<".", "c", "u", "s", "t", "o", "m", ".", "w", "e", "b", "p">>)
    ELSE RegexReplaceAll(RegexReplaceAll(d.value, ExtensionRegex, WebpExt),
                         MimeRegex, WebpMime)

C10_OverridesReplaceDefaults ==
    [][\A r \in InputRules :
        (VisitOf(r) /\ ~HasFallbackMarker(tree[r].selector)) =>
            LET all == walkDecls(tree, r)
                moved == SelectSeq(all, Matches)
            IN /\ walkDecls(tree', r) = SelectSeq(all, NotMatches)
               /\ MapHas(webpRules', r) <=> moved # <<>>
               /\ MapHas(noWebpRules', r) <=> moved # <<>>
               /\ moved # <<>> =>
                    /\ tree'[MapGet(noWebpRules', r)].nodes = moved
                    /\ tree'[MapGet(webpRules', r)].nodes =
                          [i \in 1..Len(moved) |->
                              Decl(moved[i].prop, EffectiveRename(moved[i]))]
      ]_vars

C10_Witness ==
    \E r \in InputRules :
        /\ options.predicate = "custom"
        /\ Visited(r)
        /\ BothVariants(r)
        /\ \E i \in 1..Len(OwnDecls(tree, r)) :
                RegexTest(OwnDecls(tree, r)[i].value, ExtensionRegex)
(***************************************************************************)
(* Vocabulary of the properties of several invocations.                    *)
(***************************************************************************)
DefaultClassifier == options.predicate = "default" /\ options.rename = "default"

\* the running invocation processes the output of a finished one
SecondRun == other # NoInvocation /\ other.second = "output"

(***************************************************************************)
(* C11: with the default classifier, an invocation on the output of a      *)
(* finished one leaves the stylesheet as it was parsed, in every state of  *)
(* the invocation and after its OnceExit, and constructs no rule.          *)
(***************************************************************************)
C11_SecondRunChangesNothing ==
    (SecondRun /\ DefaultClassifier) =>
        /\ Attached(tree) = input
        /\ nextId = other.nextId

C11_Witness ==
    /\ SecondRun
    /\ pc = "done"
    /\ options.addNoJs
    /\ options.modules
    /\ \E r \in SheetRules :
            /\ r \in DOMAIN input
            /\ HasFallbackMarker(input[r].selector)
            /\ r >= FirstNewId
            /\ \E i \in 1..Len(OwnDecls(input, r)) : Matches(OwnDecls(input, r)[i])

(***************************************************************************)
(* C12: when an invocation starts (its walk has visited no rule yet) both  *)
(* maps are empty, and the maps hold only variants recorded for rules of   *)
(* the running invocation's stylesheet, so that its OnceExit inserts no    *)
(* other variant.                                                          *)
(***************************************************************************)
OwnEntries(map) ==
    \A i \in 1..Len(map) : map[i][1] < IdSpace /\ map[i][2] < IdSpace

C12_MapsFreshPerInvocation ==
    /\ (pc = "walk" /\ cursor = 1) => (noWebpRules = <<>> /\ webpRules = <<>>)
    /\ pc \in {"walk", "done"} => (OwnEntries(noWebpRules) /\ OwnEntries(webpRules))

(***************************************************************************)
(* C16: while an invocation walks, the rules of its tree are the rules of  *)
(* its input, every container holding the same rules in the same order,    *)
(* and every variant recorded for one of its rules has no parent.          *)
(***************************************************************************)
RulesOf(t, c) == SelectSeq(t[c].nodes, LAMBDA n : n.type # "decl")

Unparented(map) ==
    \A i \in 1..Len(map) : map[i][1] < IdSpace => tree[map[i][2]].parent = NoParent

C16_NoSiblingChangeInWalk ==
    pc = "walk" =>
        /\ \A c \in DOMAIN input : RulesOf(tree, c) = RulesOf(input, c)
        /\ Unparented(noWebpRules)
        /\ Unparented(webpRules)

(***************************************************************************)
(* C13: when a run is over, by OnceExit or by an exception of an override, *)
(* every rule either has the declarations it was parsed with, or has both  *)
(* variants in the tree, with every declaration it lost in both of them.   *)
(***************************************************************************)
Holds(nodes, prop) == \E i \in 1..Len(nodes) : nodes[i].prop = prop

C13_AllOrNothing ==
    pc \in {"done", "thrown"} =>
        \A r \in InputRules :
            \/ OwnDecls(tree, r) = OwnDecls(input, r)
            \/ /\ BothVariants(r)
               /\ tree[MapGet(noWebpRules, r)].parent # NoParent
               /\ tree[MapGet(webpRules, r)].parent # NoParent
               /\ \A i \in 1..Len(OwnDecls(input, r)) :
                    LET d == OwnDecls(input, r)[i]
                    IN Matches(d) =>
                        /\ \E j \in 1..Len(tree[MapGet(noWebpRules, r)].nodes) :
                                tree[MapGet(noWebpRules, r)].nodes[j] = d
                        /\ Holds(tree[MapGet(webpRules, r)].nodes, d.prop)

(***************************************************************************)
(* C17: a rule is a key of a map at most once, and a repeated visit of a   *)
(* rule (the host visits a rule it marked dirty again) changes neither     *)
(* the maps nor the tree.                                                  *)
(***************************************************************************)
KeysOnce(map) ==
    \A i, j \in 1..Len(map) : map[i][1] = map[j][1] => i = j

RevisitOf(r) ==
    /\ pc = "walk"
    /\ cursor > Len(RulesInOrder(tree, RootId))
    /\ cursor' = cursor
    /\ r \in dirty
    /\ r \notin dirty'

C17_RevisitChangesNothing ==
    /\ [](KeysOnce(noWebpRules) /\ KeysOnce(webpRules))
    /\ [][\A r \in InputRules :
            RevisitOf(r) => /\ tree' = tree
                            /\ noWebpRules' = noWebpRules
                            /\ webpRules' = webpRules
                            /\ nextId' = nextId
         ]_vars

C17_Witness ==
    \E r \in InputRules :
        /\ pc = "done"
        /\ BothVariants(r)
        /\ input[r].nodes # <<>>
        /\ tree[r].nodes = <<>>
        /\ Follows(tree, r, MapGet(webpRules, r), MapGet(noWebpRules, r))

(***************************************************************************)
(* C18: the declarations of a variant are declarations of the rule the     *)
(* variant is recorded for, and a rule that was not visited yet has the    *)
(* declarations it was parsed with.                                        *)
(***************************************************************************)
C18_VariantsOfOwner ==
    \A r \in InputRules :
        /\ MapHas(noWebpRules, r) =>
                IsSubseq(tree[MapGet(noWebpRules, r)].nodes, OwnDecls(input, r))
        /\ (pc = "walk" /\ ~Visited(r)) => OwnDecls(tree, r) = OwnDecls(input, r)

(***************************************************************************)
(* Vocabulary of the polyfill's properties.                                *)
(***************************************************************************)
OnRoot(token) == \E i \in 1..Len(classList) : classList[i] = token

ScriptStarted == pc \in {"image", "handlers", "src", "loading", "fired"}

(***************************************************************************)
(* C14: after a load event with a height that is not 0 the root has webp   *)
(* and not no-webp; after a load event with the height 0, or an error      *)
(* event, it has no-webp and not webp; from the first statement of the     *)
(* script on, before any event, the root has no no-js, and it has js when  *)
(* the page had no-js; the other classes of the page stay.                 *)
(***************************************************************************)
C14_ProbeOutcome ==
    /\ (pc = "fired" /\ image.fired = <<"load">> /\ image.height # 0)
            => (OnRoot("webp") /\ ~OnRoot("no-webp"))
    /\ (pc = "fired" /\ image.fired = <<"load">> /\ image.height = 0)
            => (OnRoot("no-webp") /\ ~OnRoot("webp"))
    /\ (pc = "fired" /\ image.fired = <<"error">>)
            => (OnRoot("no-webp") /\ ~OnRoot("webp"))
    /\ ScriptStarted => ~OnRoot("no-js")
    /\ (ScriptStarted /\ \E i \in 1..Len(input) : input[i] = "no-js") => OnRoot("js")
    /\ \A i \in 1..Len(input) : input[i] # "no-js" => OnRoot(input[i])
    /\ image.fired # <<>> => ScriptStarted

C14_Witness ==
    /\ pc = "fired"
    /\ image.fired = <<"load">>
    /\ image.height = 0
    /\ OnRoot("no-webp")
    /\ OnRoot("js")
    /\ OnRoot("page")
    /\ \E i \in 1..Len(input) : input[i] = "no-js"

(***************************************************************************)
(* C15: the root has no marker class before an event of the image fired,   *)
(* so none is ever added when none fires; once one fired the root has      *)
(* exactly one of webp and no-webp; it never has both.                     *)
(***************************************************************************)
C15_OneMarkerAfterEvent ==
    /\ image.fired = <<>> => (~OnRoot("webp") /\ ~OnRoot("no-webp"))
    /\ image.fired # <<>> => (OnRoot("webp") \/ OnRoot("no-webp"))
    /\ ~(OnRoot("webp") /\ OnRoot("no-webp"))
    /\ Len(image.fired) <= 1

C15_Witness ==
    /\ pc = "fired"
    /\ image.fired = <<"error">>
    /\ OnRoot("no-webp")
    /\ ~OnRoot("webp")

====
